---- MODULE Spec2Model ----
(***************************************************************************)
(* Model of the APDS-9306 ambient-light-sensor driver (src/src/lib.rs,     *)
(* src/src/register.rs, src/src/types.rs).                                 *)
(*                                                                         *)
(* The driver owns an I2C bus handle and two cached configurations.  Every *)
(* public operation is a straight-line sequence of bus transactions, each  *)
(* followed by `?`: the first failing transaction ends the operation.      *)
(* One action models one whole operation.  The bus is the environment: it  *)
(* fails at most the transaction it is told to (fault), writable registers *)
(* hold the last byte written successfully, and the bytes of read-only     *)
(* registers (PartId, MainStatus, data) are inputs of the operation.       *)
(***************************************************************************)
EXTENDS Integers, Sequences, FiniteSets, TLC

VARIABLES
    phase,             \* "Uninitialized" (no Apds9306 value exists) or "Ready"
    config,            \* Apds9306.config
    interrupt_config,  \* Apds9306.interrupt_config
    regs,              \* the device's writable registers: address -> byte
    bus,               \* the bus transactions of the latest operation, in order
    ret,               \* the latest operation: name, argument, injected fault, result
    pre_enable         \* history: MAIN_CTRL as it was before the enable() that
                       \* returned Ok and that the latest operation is, or that
                       \* the latest operation, a disable(), directly follows;
                       \* -1 otherwise

vars == <<phase, config, interrupt_config, regs, bus, ret, pre_enable>>

(***************************************************************************)
(* Machine arithmetic.  u8 values are naturals below 256.  u32 values that *)
(* come from the caller (the thresholds) are kept as two 16-bit limbs,     *)
(* because they range up to 2^32 - 1.                                      *)
(***************************************************************************)
Pow2(n) == 2 ^ n

RECURSIVE BitAnd(_, _)
BitAnd(a, b) ==
    IF a = 0 \/ b = 0 THEN 0
    ELSE (a % 2) * (b % 2) + 2 * BitAnd(a \div 2, b \div 2)

RECURSIVE BitOr(_, _)
BitOr(a, b) ==
    IF a = 0 THEN b
    ELSE IF b = 0 THEN a
    ELSE (IF a % 2 = 1 \/ b % 2 = 1 THEN 1 ELSE 0) + 2 * BitOr(a \div 2, b \div 2)

\* !x on a u8
Not8(a) == 255 - a

\* x << n on a u8 (n < 8): the bits shifted out are lost
Shl8(a, n) == (a * Pow2(n)) % 256

\* bit i of a natural
Bit(a, i) == (a \div Pow2(i)) % 2

\* a u32 as [hi, lo], hi and lo in 0..65535
U32(hi, lo) == [hi |-> hi, lo |-> lo]

And32(a, b) == U32(BitAnd(a.hi, b.hi), BitAnd(a.lo, b.lo))

\* a >> n on a u32, for the shifts the driver uses (n = 8 and n = 16)
Shr32(a, n) ==
    IF n >= 16 THEN U32(0, a.hi \div Pow2(n - 16))
    ELSE U32(a.hi \div Pow2(n), (a.lo \div Pow2(n)) + (a.hi % Pow2(n)) * Pow2(16 - n))

\* x as u8 from a u32
AsU8_32(a) == a.lo % 256

(***************************************************************************)
(* register.rs: register addresses and bit fields                          *)
(***************************************************************************)
MainCtrl == 0
MeasRate == 4
Gain == 5
PartId == 6
MainStatus == 7
ClearData0 == 10
Data0 == 13
IntCfg == 25
IntPersistence == 26
ThresUp0 == 33
ThresUp1 == 34
ThresUp2 == 35
ThresLow0 == 36
ThresLow1 == 37
ThresLow2 == 38
ThresVar == 39

SW_RESET == 16
EN == 2
POWER_ON_STATUS == 32
INT_STATUS == 16
DATA_STATUS == 8
INT_SEL_SHIFT == 4
PERSIST_SHIFT == 4

I2C_ADDR == 82

\* the registers the driver writes
Writable ==
    {MainCtrl, MeasRate, Gain, IntCfg, IntPersistence, ThresUp0, ThresUp1,
     ThresUp2, ThresLow0, ThresLow1, ThresLow2, ThresVar}

(***************************************************************************)
(* types.rs: the enumerations, their `as u8` codes and the defaults        *)
(***************************************************************************)
Resolution == {"Bits20", "Bits19", "Bits18", "Bits17", "Bits16", "Bits13"}

Resolution_u8(r) ==
    CASE r = "Bits20" -> 0 [] r = "Bits19" -> 1 [] r = "Bits18" -> 2
      [] r = "Bits17" -> 3 [] r = "Bits16" -> 4 [] r = "Bits13" -> 5

MeasurementRate == {"Ms25", "Ms50", "Ms100", "Ms200", "Ms500", "Ms1000", "Ms2000"}

MeasurementRate_u8(m) ==
    CASE m = "Ms25" -> 0 [] m = "Ms50" -> 1 [] m = "Ms100" -> 2 [] m = "Ms200" -> 3
      [] m = "Ms500" -> 4 [] m = "Ms1000" -> 5 [] m = "Ms2000" -> 6

GainSetting == {"Gain1", "Gain3", "Gain6", "Gain9", "Gain18"}

Gain_u8(g) ==
    CASE g = "Gain1" -> 0 [] g = "Gain3" -> 1 [] g = "Gain6" -> 2
      [] g = "Gain9" -> 3 [] g = "Gain18" -> 4

InterruptSource == {"ClearChannel", "AlsChannel"}

InterruptSource_u8(s) == CASE s = "ClearChannel" -> 0 [] s = "AlsChannel" -> 1

InterruptMode == {"Threshold", "Variation"}

InterruptMode_u8(m) == CASE m = "Threshold" -> 0 [] m = "Variation" -> 1

VarianceThreshold ==
    {"Counts8", "Counts16", "Counts32", "Counts64", "Counts128", "Counts256",
     "Counts512", "Counts1024"}

VarianceThreshold_u8(v) ==
    CASE v = "Counts8" -> 0 [] v = "Counts16" -> 1 [] v = "Counts32" -> 2
      [] v = "Counts64" -> 3 [] v = "Counts128" -> 4 [] v = "Counts256" -> 5
      [] v = "Counts512" -> 6 [] v = "Counts1024" -> 7

\* bool as u8
Bool_u8(b) == IF b THEN 1 ELSE 0

Config_default ==
    [resolution |-> "Bits18", measurement_rate |-> "Ms100", gain |-> "Gain3"]

InterruptConfig_default ==
    [source |-> "AlsChannel", mode |-> "Threshold", enabled |-> FALSE,
     persistence |-> 0, upper_threshold |-> U32(15, 65535),
     lower_threshold |-> U32(0, 0), variance_threshold |-> "Counts8"]

Apds9306Type == {"Apds9306", "Apds9306_065"}

(***************************************************************************)
(* The bus.  A transaction is logged with what the driver put on the wire. *)
(* BusOk(i, fault): the bus fails the i-th transaction of an operation iff *)
(* i = fault (fault = 0: no failure).                                      *)
(***************************************************************************)
BusOk(i, fault) == i # fault

\* Result<_, Error<E>> of a step: its transactions, Ok / the error, the value
Step(log, res, val) == [log |-> log, res |-> res, val |-> val]

\* self.i2c.write_read(I2C_ADDR, &[register as u8], &mut buffer).await?; Ok(buffer[0])
read_register(register, byte, ok) ==
    Step(<<[kind |-> "write_read", addr |-> I2C_ADDR, bytes |-> <<register>>,
            rlen |-> 1, data |-> IF ok THEN <<byte>> ELSE <<>>, ok |-> ok]>>,
         IF ok THEN "Ok" ELSE "I2c",
         IF ok THEN byte ELSE 0)

\* self.i2c.write(I2C_ADDR, &[register as u8, value]).await?; Ok(())
write_register(register, value, ok) ==
    Step(<<[kind |-> "write", addr |-> I2C_ADDR, bytes |-> <<register, value>>,
            rlen |-> 0, data |-> <<>>, ok |-> ok]>>,
         IF ok THEN "Ok" ELSE "I2c",
         0)

\* self.i2c.write_read(I2C_ADDR, &[start_register as u8], buffer).await?; Ok(())
read_registers(start_register, bytes, ok) ==
    Step(<<[kind |-> "write_read", addr |-> I2C_ADDR, bytes |-> <<start_register>>,
            rlen |-> Len(bytes), data |-> IF ok THEN bytes ELSE <<>>, ok |-> ok]>>,
         IF ok THEN "Ok" ELSE "I2c",
         IF ok THEN bytes ELSE <<>>)

\* The simulated device: a writable register holds the last byte written to
\* it by a transaction that succeeded.
RECURSIVE Apply(_, _)
Apply(r, log) ==
    IF log = <<>> THEN r
    ELSE LET t == Head(log)
             r1 == IF t.kind = "write" /\ t.ok /\ t.bytes[1] \in DOMAIN r
                   THEN [r EXCEPT ![t.bytes[1]] = t.bytes[2]]
                   ELSE r
         IN Apply(r1, Tail(log))

\* write_register(plan[i]).await?; write_register(plan[i+1]).await?; ... Ok(())
\* plan[i] = <<register, value>>; the i-th write is the operation's i-th transaction
RECURSIVE write_chain(_, _, _)
write_chain(plan, i, fault) ==
    IF i > Len(plan) THEN Step(<<>>, "Ok", 0)
    ELSE LET w == write_register(plan[i][1], plan[i][2], BusOk(i, fault))
         IN IF w.res # "Ok" THEN w
            ELSE LET rest == write_chain(plan, i + 1, fault)
                 IN Step(w.log \o rest.log, rest.res, 0)

(***************************************************************************)
(* lib.rs: the driver.  Each operation is an operator from the driver      *)
(* (self), its arguments, the device's answer and the injected fault to    *)
(* an outcome: the transactions issued, the result, the driver fields.     *)
(***************************************************************************)
Self(c, ic) == [config |-> c, interrupt_config |-> ic]

Outcome(self, step) ==
    [config |-> self.config, interrupt_config |-> self.interrupt_config,
     log |-> step.log, res |-> step.res, val |-> step.val]

\* faulty variant: either identity byte is accepted for either variant
verify_device_id_either(apds9306_type, id_byte, fault) ==
    LET r == read_register(PartId, id_byte, BusOk(1, fault))
    IN IF r.res # "Ok" THEN r
       ELSE IF r.val # 177 /\ r.val # 179 THEN Step(r.log, "DeviceNotFound", 0)
       ELSE Step(r.log, "Ok", 0)

verify_device_id(apds9306_type, id_byte, fault) ==
    LET r == read_register(PartId, id_byte, BusOk(1, fault))
    IN IF r.res # "Ok" THEN r
       ELSE LET part_id == r.val
            IN CASE apds9306_type = "Apds9306" ->
                      IF part_id # 177 THEN Step(r.log, "DeviceNotFound", 0)
                      ELSE Step(r.log, "Ok", 0)
                 [] apds9306_type = "Apds9306_065" ->
                      IF part_id # 179 THEN Step(r.log, "DeviceNotFound", 0)
                      ELSE Step(r.log, "Ok", 0)

new(apds9306_type, id_byte, fault) ==
    Outcome(Self(Config_default, InterruptConfig_default),
            verify_device_id(apds9306_type, id_byte, fault))

\* faulty variant: reset also puts the cached configurations back to the defaults
reset_clears_cache(self, fault) ==
    Outcome(Self(Config_default, InterruptConfig_default),
            write_register(MainCtrl, SW_RESET, BusOk(1, fault)))

reset(self, fault) ==
    LET value == SW_RESET
    IN Outcome(self, write_register(MainCtrl, value, BusOk(1, fault)))

\* faulty variant: the enable bit is written without the byte that was read
enable_blind(self, main_ctrl, fault) ==
    LET r == read_register(MainCtrl, main_ctrl, BusOk(1, fault))
    IN IF r.res # "Ok" THEN Outcome(self, r)
       ELSE LET w == write_register(MainCtrl, EN, BusOk(2, fault))
            IN Outcome(self, Step(r.log \o w.log, w.res, 0))

enable(self, main_ctrl, fault) ==
    LET r == read_register(MainCtrl, main_ctrl, BusOk(1, fault))
    IN IF r.res # "Ok" THEN Outcome(self, r)
       ELSE LET current == r.val
                value == BitOr(current, EN)
                w == write_register(MainCtrl, value, BusOk(2, fault))
            IN Outcome(self, Step(r.log \o w.log, w.res, 0))

disable(self, main_ctrl, fault) ==
    LET r == read_register(MainCtrl, main_ctrl, BusOk(1, fault))
    IN IF r.res # "Ok" THEN Outcome(self, r)
       ELSE LET current == r.val
                value == BitAnd(current, Not8(EN))
                w == write_register(MainCtrl, value, BusOk(2, fault))
            IN Outcome(self, Step(r.log \o w.log, w.res, 0))

\* faulty variant: the resolution is shifted by 3, onto the rate's field
meas_rate_value_shift3(c) ==
    BitOr(Shl8(Resolution_u8(c.resolution), 3), MeasurementRate_u8(c.measurement_rate))

\* ((config.resolution as u8) << 4) | (config.measurement_rate as u8)
meas_rate_value(c) ==
    BitOr(Shl8(Resolution_u8(c.resolution), 4), MeasurementRate_u8(c.measurement_rate))

\* faulty variant: the cache is updated only once both writes succeeded
configure_store_on_success(self, c, fault) ==
    LET plan == << <<MeasRate, meas_rate_value(c)>>, <<Gain, Gain_u8(c.gain)>> >>
        w == write_chain(plan, 1, fault)
    IN Outcome(IF w.res = "Ok" THEN [self EXCEPT !.config = c] ELSE self, w)

configure(self, c, fault) ==
    LET self1 == [self EXCEPT !.config = c]
        plan == << <<MeasRate, meas_rate_value(c)>>, <<Gain, Gain_u8(c.gain)>> >>
    IN Outcome(self1, write_chain(plan, 1, fault))

\* faulty variant: the mode and the enabled flag are shifted to each other's bit
int_cfg_value_swapped(c) ==
    BitOr(BitOr(Shl8(InterruptSource_u8(c.source), INT_SEL_SHIFT),
                Shl8(InterruptMode_u8(c.mode), 2)),
          Shl8(Bool_u8(c.enabled), 3))

int_cfg_value(c) ==
    BitOr(BitOr(Shl8(InterruptSource_u8(c.source), INT_SEL_SHIFT),
                Shl8(InterruptMode_u8(c.mode), 3)),
          Shl8(Bool_u8(c.enabled), 2))

\* faulty variant: the persistence is masked to four bits instead of clamped
int_persistence_value_wrap(p) == Shl8(BitAnd(p, 15), PERSIST_SHIFT)

\* faulty variant: the persistence is shifted without being clamped
int_persistence_value_noclamp(p) == Shl8(p, PERSIST_SHIFT)

int_persistence_value(p) ==
    LET persistence == IF p > 15 THEN 15 ELSE p
    IN Shl8(persistence, PERSIST_SHIFT)

\* faulty variant: the threshold is split into bytes without the two masks
threshold_bytes_unmasked(threshold) ==
    << AsU8_32(threshold), AsU8_32(Shr32(threshold, 8)), AsU8_32(Shr32(threshold, 16)) >>

\* let t = threshold & 0xFFFFF;
\* (t & 0xFF) as u8, ((t >> 8) & 0xFF) as u8, ((t >> 16) & 0x0F) as u8
threshold_bytes(threshold) ==
    LET t == And32(threshold, U32(15, 65535))
    IN << AsU8_32(And32(t, U32(0, 255))),
          AsU8_32(And32(Shr32(t, 8), U32(0, 255))),
          AsU8_32(And32(Shr32(t, 16), U32(0, 15))) >>

\* faulty variant: the lower threshold is written before the upper one
interrupt_writes_swapped(c) ==
    LET upper == threshold_bytes(c.upper_threshold)
        lower == threshold_bytes(c.lower_threshold)
    IN << <<IntCfg, int_cfg_value(c)>>,
          <<IntPersistence, int_persistence_value(c.persistence)>>,
          <<ThresLow0, lower[1]>>, <<ThresLow1, lower[2]>>, <<ThresLow2, lower[3]>>,
          <<ThresUp0, upper[1]>>, <<ThresUp1, upper[2]>>, <<ThresUp2, upper[3]>>,
          <<ThresVar, VarianceThreshold_u8(c.variance_threshold)>> >>

\* the writes of configure_interrupt, in program order
interrupt_writes(c) ==
    LET upper == threshold_bytes(c.upper_threshold)
        lower == threshold_bytes(c.lower_threshold)
    IN << <<IntCfg, int_cfg_value(c)>>,
          <<IntPersistence, int_persistence_value(c.persistence)>>,
          <<ThresUp0, upper[1]>>, <<ThresUp1, upper[2]>>, <<ThresUp2, upper[3]>>,
          <<ThresLow0, lower[1]>>, <<ThresLow1, lower[2]>>, <<ThresLow2, lower[3]>>,
          <<ThresVar, VarianceThreshold_u8(c.variance_threshold)>> >>

configure_interrupt(self, c, fault) ==
    LET self1 == [self EXCEPT !.interrupt_config = c]
    IN Outcome(self1, write_chain(interrupt_writes(c), 1, fault))

\* faulty variant: the top nibble of the third byte is not masked off
combine_nomask(buffer) ==
    BitOr(BitOr(buffer[1], buffer[2] * Pow2(8)), buffer[3] * Pow2(16))

\* (buffer[0] as u32) | ((buffer[1] as u32) << 8) | ((buffer[2] as u32 & 0x0F) << 16)
\* (all intermediate values are below 2^24)
combine(buffer) ==
    BitOr(BitOr(buffer[1], buffer[2] * Pow2(8)), BitAnd(buffer[3], 15) * Pow2(16))

read_channel(start_register, bytes, ok) ==
    LET r == read_registers(start_register, bytes, ok)
    IN IF r.res # "Ok" THEN Step(r.log, r.res, 0)
       ELSE Step(r.log, "Ok", combine(r.val))

read_data(self, bytes, fault) ==
    Outcome(self, read_channel(Data0, bytes, BusOk(1, fault)))

read_clear_data(self, bytes, fault) ==
    Outcome(self, read_channel(ClearData0, bytes, BusOk(1, fault)))

read_measurement_data(self, als_bytes, clear_bytes, fault) ==
    LET a == read_channel(Data0, als_bytes, BusOk(1, fault))
    IN IF a.res # "Ok" THEN Outcome(self, a)
       ELSE LET c == read_channel(ClearData0, clear_bytes, BusOk(2, fault))
            IN IF c.res # "Ok" THEN Outcome(self, Step(a.log \o c.log, c.res, 0))
               ELSE Outcome(self, Step(a.log \o c.log, "Ok",
                                       [als |-> a.val, clear |-> c.val]))

read_status(self, status_byte, fault) ==
    Outcome(self, read_register(MainStatus, status_byte, BusOk(1, fault)))

get_status(self, status_byte, fault) ==
    LET r == read_status(self, status_byte, fault)
    IN IF r.res # "Ok" THEN r
       ELSE [r EXCEPT !.val =
                [power_on |-> BitAnd(r.val, POWER_ON_STATUS) # 0,
                 interrupt |-> BitAnd(r.val, INT_STATUS) # 0,
                 data_ready |-> BitAnd(r.val, DATA_STATUS) # 0]]

\* is_power_on_status / is_interrupt / is_data_ready: one status read, one mask
status_flag(self, mask, status_byte, fault) ==
    LET r == read_status(self, status_byte, fault)
    IN IF r.res # "Ok" THEN r
       ELSE [r EXCEPT !.val = (BitAnd(r.val, mask) # 0)]

get_config(self) == self.config

get_interrupt_config(self) == self.interrupt_config

(***************************************************************************)
(* Actions: one per public operation of the driver.                        *)
(***************************************************************************)
Ret(op, arg, fault, o) ==
    [op |-> op, arg |-> arg, fault |-> fault, res |-> o.res, val |-> o.val]

\* what every operation leaves behind on the bus, the device and the history
Effects(op, arg, fault, o) ==
    /\ bus' = o.log
    /\ regs' = Apply(regs, o.log)
    /\ ret' = Ret(op, arg, fault, o)
    /\ pre_enable' =
          IF op = "enable" /\ o.res = "Ok" THEN regs[MainCtrl]
          ELSE IF op = "disable" /\ ret.op = "enable" /\ ret.res = "Ok" THEN pre_enable
          ELSE -1

\* an operation on an existing driver (&mut self)
Method(op, arg, fault, o) ==
    /\ phase = "Ready"
    /\ phase' = phase
    /\ config' = o.config
    /\ interrupt_config' = o.interrupt_config
    /\ Effects(op, arg, fault, o)

\* Apds9306::new: the driver exists afterwards iff the result is Ok
New(apds9306_type, id_byte, fault) ==
    LET o == new(apds9306_type, id_byte, fault)
    IN /\ phase = "Uninitialized"
       /\ phase' = IF o.res = "Ok" THEN "Ready" ELSE "Uninitialized"
       /\ config' = IF o.res = "Ok" THEN o.config ELSE Config_default
       /\ interrupt_config' =
             IF o.res = "Ok" THEN o.interrupt_config ELSE InterruptConfig_default
       /\ Effects("new", apds9306_type, fault, o)

Reset(fault) ==
    Method("reset", 0, fault, reset(Self(config, interrupt_config), fault))

Enable(fault) ==
    Method("enable", 0, fault,
           enable(Self(config, interrupt_config), regs[MainCtrl], fault))

Disable(fault) ==
    Method("disable", 0, fault,
           disable(Self(config, interrupt_config), regs[MainCtrl], fault))

Configure(c, fault) ==
    Method("configure", c, fault, configure(Self(config, interrupt_config), c, fault))

ConfigureInterrupt(c, fault) ==
    Method("configure_interrupt", c, fault,
           configure_interrupt(Self(config, interrupt_config), c, fault))

ReadData(bytes, fault) ==
    Method("read_data", bytes, fault,
           read_data(Self(config, interrupt_config), bytes, fault))

ReadClearData(bytes, fault) ==
    Method("read_clear_data", bytes, fault,
           read_clear_data(Self(config, interrupt_config), bytes, fault))

ReadMeasurementData(als_bytes, clear_bytes, fault) ==
    Method("read_measurement_data", <<als_bytes, clear_bytes>>, fault,
           read_measurement_data(Self(config, interrupt_config),
                                 als_bytes, clear_bytes, fault))

ReadStatus(status_byte, fault) ==
    Method("read_status", status_byte, fault,
           read_status(Self(config, interrupt_config), status_byte, fault))

GetStatus(status_byte, fault) ==
    Method("get_status", status_byte, fault,
           get_status(Self(config, interrupt_config), status_byte, fault))

IsPowerOnStatus(status_byte, fault) ==
    Method("is_power_on_status", status_byte, fault,
           status_flag(Self(config, interrupt_config), POWER_ON_STATUS,
                       status_byte, fault))

IsInterrupt(status_byte, fault) ==
    Method("is_interrupt", status_byte, fault,
           status_flag(Self(config, interrupt_config), INT_STATUS, status_byte, fault))

IsDataReady(status_byte, fault) ==
    Method("is_data_ready", status_byte, fault,
           status_flag(Self(config, interrupt_config), DATA_STATUS, status_byte, fault))

GetConfig ==
    LET self == Self(config, interrupt_config)
    IN Method("get_config", 0, 0, Outcome(self, Step(<<>>, "Ok", get_config(self))))

GetInterruptConfig ==
    LET self == Self(config, interrupt_config)
    IN Method("get_interrupt_config", 0, 0,
              Outcome(self, Step(<<>>, "Ok", get_interrupt_config(self))))

\* release(self) -> I2C: the driver is consumed
Release ==
    /\ phase = "Ready"
    /\ phase' = "Uninitialized"
    /\ config' = Config_default
    /\ interrupt_config' = InterruptConfig_default
    /\ Effects("release", 0, 0, Step(<<>>, "Ok", 0))

(***************************************************************************)
(* Initial states.  The device's writable registers start at zero, except  *)
(* MAIN_CTRL, which starts at any byte of the given set.                   *)
(***************************************************************************)
Devices(ctrl_bytes) ==
    {[r \in Writable |-> IF r = MainCtrl THEN m ELSE 0] : m \in ctrl_bytes}

\* before construction: no driver, nothing on the bus yet
Unconstructed(ctrl_bytes) ==
    /\ phase = "Uninitialized"
    /\ config = Config_default
    /\ interrupt_config = InterruptConfig_default
    /\ regs \in Devices(ctrl_bytes)
    /\ bus = <<>>
    /\ ret = [op |-> "none", arg |-> 0, fault |-> 0, res |-> "Ok", val |-> 0]
    /\ pre_enable = -1

\* right after Apds9306::new(i2c, Apds9306Type::Apds9306) returned Ok on a base part
Constructed(ctrl_bytes) ==
    LET o == new("Apds9306", 177, 0)
    IN /\ phase = "Ready"
       /\ config = o.config
       /\ interrupt_config = o.interrupt_config
       /\ regs \in Devices(ctrl_bytes)
       /\ bus = o.log
       /\ ret = Ret("new", "Apds9306", 0, o)
       /\ pre_enable = -1

\* the latest operation is the construction: nothing was configured yet
Fresh == ret.op = "new"

(***************************************************************************)
(* Input sets                                                              *)
(***************************************************************************)
Byte == 0 .. 255

AllConfigs ==
    [resolution : Resolution, measurement_rate : MeasurementRate, gain : GainSetting]

\* two sensing configurations that differ from the default and from each
\* other in both registers
SomeConfigs ==
    {Config_default,
     [resolution |-> "Bits13", measurement_rate |-> "Ms2000", gain |-> "Gain18"]}

\* thresholds below and above 20 bits, up to 2^32 - 1
ThresholdHi == {0, 1, 10, 15, 16, 31, 255, 256, 4660, 32768, 43981, 65520, 65535}
ThresholdLo == {0, 1, 255, 256, 4660, 22136, 32768, 65280, 65535}
Thresholds == {U32(hi, lo) : hi \in ThresholdHi, lo \in ThresholdLo}

\* every source, mode, enabled and variance setting
InterruptFlagInputs ==
    {[InterruptConfig_default EXCEPT !.source = s, !.mode = m, !.enabled = e,
                                     !.variance_threshold = v] :
        s \in InterruptSource, m \in InterruptMode, e \in BOOLEAN,
        v \in VarianceThreshold}

\* every persistence a u8 holds
InterruptPersistenceInputs ==
    {[InterruptConfig_default EXCEPT !.persistence = p] : p \in Byte}

\* every sampled threshold as the upper one, as the lower one, and as both
InterruptThresholdInputs ==
    {[InterruptConfig_default EXCEPT !.upper_threshold = t] : t \in Thresholds}
    \cup {[InterruptConfig_default EXCEPT !.lower_threshold = t] : t \in Thresholds}
    \cup {[InterruptConfig_default EXCEPT !.upper_threshold = t,
                                          !.lower_threshold = U32(t.lo, t.hi)] :
             t \in Thresholds}

InterruptInputs ==
    InterruptFlagInputs \cup InterruptPersistenceInputs \cup InterruptThresholdInputs

SomeInterruptConfigs ==
    {InterruptConfig_default,
     [source |-> "ClearChannel", mode |-> "Variation", enabled |-> TRUE,
      persistence |-> 20, upper_threshold |-> U32(18, 13398),
      lower_threshold |-> U32(65535, 256), variance_threshold |-> "Counts1024"]}

DataBytes == {0, 10, 16, 18, 52, 255}
DataTriples == {<<b0, b1, b2>> : b0 \in DataBytes, b1 \in DataBytes, b2 \in Byte}
SomeTriples == {<<52, 18, 10>>}
SomeStatus == {40}
SomeIds == {177, 179, 0}
SomeCtrl == {253}
\* the bus fails no write, the first, one in the middle or the last
SomeFaults == {0, 1, 5, 9}

(***************************************************************************)
(* Specifications                                                          *)
(***************************************************************************)
\* the whole driver, on a few inputs per operation
Init == Unconstructed(SomeCtrl)

Next ==
    \/ \E t \in Apds9306Type, id \in SomeIds, f \in 0 .. 1 : New(t, id, f)
    \/ \E f \in 0 .. 1 : Reset(f)
    \/ \E f \in 0 .. 2 : Enable(f)
    \/ \E f \in 0 .. 2 : Disable(f)
    \/ \E c \in SomeConfigs, f \in 0 .. 2 : Configure(c, f)
    \/ \E c \in SomeInterruptConfigs, f \in SomeFaults : ConfigureInterrupt(c, f)
    \/ \E b \in SomeTriples, f \in 0 .. 1 : ReadData(b, f)
    \/ \E b \in SomeTriples, f \in 0 .. 1 : ReadClearData(b, f)
    \/ \E a \in SomeTriples, c \in SomeTriples, f \in 0 .. 2 : ReadMeasurementData(a, c, f)
    \/ \E s \in SomeStatus, f \in 0 .. 1 : ReadStatus(s, f)
    \/ \E s \in SomeStatus, f \in 0 .. 1 : GetStatus(s, f)
    \/ \E s \in SomeStatus, f \in 0 .. 1 : IsPowerOnStatus(s, f)
    \/ \E s \in SomeStatus, f \in 0 .. 1 : IsInterrupt(s, f)
    \/ \E s \in SomeStatus, f \in 0 .. 1 : IsDataReady(s, f)
    \/ GetConfig
    \/ GetInterruptConfig
    \/ Release

Spec == Init /\ [][Next]_vars

\* construction and release, for every identity byte
InitNew == Unconstructed({0})

NextNew ==
    \/ \E t \in Apds9306Type, id \in Byte, f \in 0 .. 1 : New(t, id, f)
    \/ Release

SpecNew == InitNew /\ [][NextNew]_vars

\* enable, disable and reset, for every MAIN_CTRL byte
InitCtrl == Constructed(Byte)

NextCtrl ==
    \/ \E f \in 0 .. 2 : Enable(f)
    \/ \E f \in 0 .. 2 : Disable(f)
    \/ \E f \in 0 .. 1 : Reset(f)

SpecCtrl == InitCtrl /\ [][NextCtrl]_vars

\* configure on a fresh driver, for every sensing configuration
InitConfigure == Constructed({0})

NextConfigure == Fresh /\ \E c \in AllConfigs, f \in 0 .. 2 : Configure(c, f)

SpecConfigure == InitConfigure /\ [][NextConfigure]_vars

\* configure_interrupt on a fresh driver, for the interrupt inputs
InitInterrupt == Constructed({0})

NextInterrupt ==
    Fresh /\ \E c \in InterruptInputs, f \in 0 .. 9 : ConfigureInterrupt(c, f)

SpecInterrupt == InitInterrupt /\ [][NextInterrupt]_vars

\* the two channel reads on a fresh driver, for the data bytes
InitRead == Constructed({0})

NextRead ==
    \/ Fresh /\ \E b \in DataTriples, f \in 0 .. 1 : ReadData(b, f)
    \/ Fresh /\ \E b \in DataTriples, f \in 0 .. 1 : ReadClearData(b, f)

SpecRead == InitRead /\ [][NextRead]_vars

(***************************************************************************)
(* Properties.  They read the bus log and the device, and state the        *)
(* expected bytes by arithmetic on the arguments.                          *)
(***************************************************************************)
Self_now == Self(config, interrupt_config)

IsWrite(t, register) ==
    /\ t.kind = "write"
    /\ t.addr = 82
    /\ Len(t.bytes) = 2
    /\ t.bytes[1] = register

IsRead(t, register, n) ==
    /\ t.kind = "write_read"
    /\ t.addr = 82
    /\ t.bytes = <<register>>
    /\ t.rlen = n

\* the identity byte of each variant
ExpectedId(apds9306_type) == IF apds9306_type = "Apds9306" THEN 177 ELSE 179

\* C1: construction issues exactly one transaction, a one-byte read of PartId
\* (0x06) at address 0x52, and no write; a driver is returned iff the read
\* succeeds and the byte is 0xB1 for the base variant or 0xB3 for the -065
\* variant; another byte gives DeviceNotFound, a failed read the bus error,
\* and neither produces a driver; a returned driver holds the default
\* sensing and interrupt configuration.
C1_Construction ==
    ret.op = "new" =>
        /\ Len(bus) = 1
        /\ IsRead(bus[1], 6, 1)
        /\ (phase = "Ready") <=> (ret.res = "Ok")
        /\ bus[1].ok <=> (ret.fault = 0)
        /\ ~bus[1].ok => ret.res = "I2c"
        /\ bus[1].ok =>
              /\ Len(bus[1].data) = 1
              /\ (bus[1].data[1] = ExpectedId(ret.arg)) => ret.res = "Ok"
              /\ (bus[1].data[1] # ExpectedId(ret.arg)) => ret.res = "DeviceNotFound"
        /\ phase = "Ready" =>
              /\ get_config(Self_now) = Config_default
              /\ get_interrupt_config(Self_now) = InterruptConfig_default

\* the base variant was requested and the part answered 0xB3: no driver
C1_Witness ==
    /\ ret.op = "new"
    /\ ret.arg = "Apds9306"
    /\ Len(bus) = 1
    /\ bus[1].ok
    /\ bus[1].data = <<179>>
    /\ ret.res = "DeviceNotFound"
    /\ phase = "Uninitialized"

\* byte w is byte v with bit 1 set to b and every other bit kept
SameButEnable(w, v, b) ==
    \A i \in 0 .. 7 : Bit(w, i) = (IF i = 1 THEN b ELSE Bit(v, i))

\* C2: enable() reads MAIN_CTRL and writes back the byte read with bit 1 set;
\* disable() reads MAIN_CTRL and writes back the byte read with bit 1 cleared;
\* so for every MAIN_CTRL byte v, enable() followed by disable() leaves
\* MAIN_CTRL equal to v with bit 1 cleared and every other bit as it was.
C2_EnableDisable ==
    /\ (ret.op \in {"enable", "disable"} /\ ret.fault = 0) =>
          /\ ret.res = "Ok"
          /\ Len(bus) = 2
          /\ IsRead(bus[1], 0, 1)
          /\ IsWrite(bus[2], 0)
          /\ SameButEnable(bus[2].bytes[2], bus[1].data[1],
                           IF ret.op = "enable" THEN 1 ELSE 0)
          /\ regs[MainCtrl] = bus[2].bytes[2]
    /\ (ret.op = "enable" /\ ret.res = "Ok") => bus[1].data[1] = pre_enable
    /\ (ret.op = "disable" /\ ret.res = "Ok" /\ pre_enable >= 0) =>
          SameButEnable(regs[MainCtrl], pre_enable, 0)

\* disable() returned Ok right after enable() returned Ok on MAIN_CTRL = 0xFD
C2_Witness ==
    /\ ret.op = "disable"
    /\ ret.res = "Ok"
    /\ pre_enable = 253
    /\ bus[1].data = <<255>>
    /\ regs[MainCtrl] = 253

\* the registers configure_interrupt writes, in order
InterruptOrder == <<25, 26, 33, 34, 35, 36, 37, 38, 39>>

\* the transactions so far went to the registers of InterruptOrder, in order,
\* each once, and only the last one may have failed
InOrder ==
    /\ Len(bus) <= Len(InterruptOrder)
    /\ \A i \in 1 .. Len(bus) :
          /\ IsWrite(bus[i], InterruptOrder[i])
          /\ (i < Len(bus) => bus[i].ok)

\* C3 as stated: configure_interrupt on a bus that never fails performs
\* exactly eight register writes, in the order INT_CFG, INT_PERSISTENCE,
\* upper threshold, lower threshold, variance threshold; if the k-th write
\* fails, exactly the first k were attempted and the bus error is returned.
C3_Original ==
    ret.op = "configure_interrupt" =>
        /\ InOrder
        /\ ret.fault = 0 => (Len(bus) = 8 /\ ret.res = "Ok")
        /\ ret.fault \in 1 .. 8 => (Len(bus) = ret.fault /\ ret.res = "I2c")

\* C3 amended: the writes are nine, not eight: 0x19, 0x1A, 0x21, 0x22, 0x23,
\* 0x24, 0x25, 0x26, 0x27 in this order; if the k-th write fails
\* (1 <= k <= 9), exactly the first k were attempted, none is retried, none
\* after it is issued, and the bus error is returned.
C3_NineWrites ==
    ret.op = "configure_interrupt" =>
        /\ InOrder
        /\ ret.fault = 0 =>
              /\ Len(bus) = 9
              /\ bus[9].ok
              /\ ret.res = "Ok"
        /\ ret.fault \in 1 .. 9 =>
              /\ Len(bus) = ret.fault
              /\ ~bus[ret.fault].ok
              /\ ret.res = "I2c"

\* the fourth write (upper threshold, middle byte) failed
C3_Witness ==
    /\ ret.op = "configure_interrupt"
    /\ ret.fault = 4
    /\ Len(bus) = 4
    /\ bus[4].bytes[1] = 34
    /\ ret.res = "I2c"
    /\ regs[ThresUp0] = 255
    /\ regs[ThresUp1] = 0

\* the MEAS_RATE byte of a sensing configuration, by arithmetic
MeasRateByte(c) ==
    Resolution_u8(c.resolution) * 16 + MeasurementRate_u8(c.measurement_rate)

\* C4: configure(c) stores c in the cache whatever the bus does and never
\* rolls it back.  If the MEAS_RATE write succeeds and the GAIN write fails,
\* the bus error is returned, get_config() returns c, MEAS_RATE holds c's
\* byte and GAIN holds its previous value.  If the MEAS_RATE write fails, the
\* GAIN write is not attempted and get_config() returns c.  A configure(c)
\* that succeeds leaves both device registers matching the cache.
C4_ConfigureNoRollback ==
    [][ret'.op = "configure" =>
          /\ get_config(Self(config', interrupt_config')) = ret'.arg
          /\ interrupt_config' = interrupt_config
          /\ ret'.fault = 2 =>
                /\ ret'.res = "I2c"
                /\ Len(bus') = 2
                /\ IsWrite(bus'[1], 4) /\ bus'[1].ok
                /\ IsWrite(bus'[2], 5) /\ ~bus'[2].ok
                /\ regs'[MeasRate] = MeasRateByte(ret'.arg)
                /\ regs'[Gain] = regs[Gain]
          /\ ret'.fault = 1 =>
                /\ ret'.res = "I2c"
                /\ Len(bus') = 1
                /\ IsWrite(bus'[1], 4) /\ ~bus'[1].ok
                /\ regs' = regs
          /\ ret'.fault = 0 =>
                /\ ret'.res = "Ok"
                /\ regs'[MeasRate] = MeasRateByte(config')
                /\ regs'[Gain] = Gain_u8(config'.gain)
      ]_vars

\* the GAIN write failed: the cache holds the new configuration, MEAS_RATE
\* holds its byte and GAIN still holds the byte of another configuration
C4_Witness ==
    /\ ret.op = "configure"
    /\ ret.fault = 2
    /\ ret.res = "I2c"
    /\ config = ret.arg
    /\ config.gain = "Gain18"
    /\ regs[MeasRate] = 86
    /\ regs[Gain] = 1

\* C5: for every sensing configuration a successful configure performs
\* exactly two writes, MEAS_RATE (0x04) with (resolution_code << 4) |
\* rate_code and then GAIN (0x05) with gain_code, and decoding them by
\* (MEAS_RATE >> 4) & 7, MEAS_RATE & 7 and GAIN & 7 gives back the
\* resolution, the rate and the gain of the argument, and no other.
C5_ConfigureRoundTrip ==
    (ret.op = "configure" /\ ret.fault = 0) =>
        /\ ret.res = "Ok"
        /\ Len(bus) = 2
        /\ IsWrite(bus[1], 4) /\ bus[1].ok
        /\ IsWrite(bus[2], 5) /\ bus[2].ok
        /\ bus[1].bytes[2] = MeasRateByte(ret.arg)
        /\ bus[2].bytes[2] = Gain_u8(ret.arg.gain)
        /\ \A r \in Resolution :
              (Resolution_u8(r) = (bus[1].bytes[2] \div 16) % 8) <=> (r = ret.arg.resolution)
        /\ \A m \in MeasurementRate :
              (MeasurementRate_u8(m) = bus[1].bytes[2] % 8) <=> (m = ret.arg.measurement_rate)
        /\ \A g \in GainSetting :
              (Gain_u8(g) = bus[2].bytes[2] % 8) <=> (g = ret.arg.gain)

\* 13-bit resolution, 2000 ms, gain 18: MEAS_RATE = 0x56, GAIN = 0x04
C5_Witness ==
    /\ ret.op = "configure"
    /\ ret.res = "Ok"
    /\ ret.arg = [resolution |-> "Bits13", measurement_rate |-> "Ms2000", gain |-> "Gain18"]
    /\ bus[1].bytes = <<4, 86>>
    /\ bus[2].bytes = <<5, 4>>

\* the value of a u32 threshold modulo 2^20
Low20(t) == (t.hi % 16) * 65536 + t.lo

\* the three bytes written from transaction i on hold the low 20 bits of t,
\* least significant byte first, with the upper nibble of the third zero
ThresholdOnWire(i, t) ==
    LET b0 == bus[i].bytes[2]
        b1 == bus[i + 1].bytes[2]
        b2 == bus[i + 2].bytes[2]
    IN /\ b0 \in 0 .. 255
       /\ b1 \in 0 .. 255
       /\ b2 \in 0 .. 15
       /\ b0 + b1 * 256 + (b2 % 16) * 65536 = Low20(t)

\* C6: for every upper or lower threshold t in [0, 2^32) the three bytes
\* configure_interrupt writes for it (LSB, middle, MSB) satisfy
\* b0 | (b1 << 8) | ((b2 & 0x0F) << 16) = t & 0xFFFFF, the upper nibble of
\* the MSB byte is zero, and a threshold above 20 bits is masked, not
\* rejected: with no bus failure the result is Ok.
C6_ThresholdBytes ==
    ret.op = "configure_interrupt" =>
        /\ Len(bus) >= 5 => ThresholdOnWire(3, ret.arg.upper_threshold)
        /\ Len(bus) >= 8 => ThresholdOnWire(6, ret.arg.lower_threshold)
        /\ ret.res \in {"Ok", "I2c"}
        /\ ret.fault = 0 => ret.res = "Ok"

\* upper threshold 0xABCDFFFF and lower threshold 0xFFFFABCD, both above 20 bits
C6_Witness ==
    /\ ret.op = "configure_interrupt"
    /\ ret.res = "Ok"
    /\ ret.arg.upper_threshold = U32(43981, 65535)
    /\ ret.arg.lower_threshold = U32(65535, 43981)
    /\ <<bus[3].bytes[2], bus[4].bytes[2], bus[5].bytes[2]>> = <<255, 255, 13>>
    /\ <<bus[6].bytes[2], bus[7].bytes[2], bus[8].bytes[2]>> = <<205, 171, 15>>

Min(a, b) == IF a < b THEN a ELSE b

\* C7: for every persistence p in 0..255 the byte written to INT_PERSISTENCE
\* is min(p, 15) << 4: values above 15 are clamped, not rejected, persistence
\* 20 gives the byte of persistence 15 (0xF0), and the low nibble is zero.
C7_PersistenceClamp ==
    (ret.op = "configure_interrupt" /\ Len(bus) >= 2) =>
        /\ IsWrite(bus[2], 26)
        /\ bus[2].bytes[2] = Min(ret.arg.persistence, 15) * 16
        /\ bus[2].bytes[2] % 16 = 0
        /\ ret.arg.persistence \in {15, 20} => bus[2].bytes[2] = 240
        /\ ret.fault = 0 => ret.res = "Ok"

\* persistence 20 was written as 0xF0
C7_Witness ==
    /\ ret.op = "configure_interrupt"
    /\ ret.arg.persistence = 20
    /\ ret.res = "Ok"
    /\ bus[2].bytes = <<26, 240>>

\* C8 as stated: the INT_PERSISTENCE byte written for persistence 16 differs
\* from the one written for persistence 15.
C8_Original ==
    (ret.op = "configure_interrupt" /\ ret.arg.persistence = 16 /\ Len(bus) >= 2) =>
        bus[2].bytes[2] # int_persistence_value(15)

\* C8 amended: the INT_PERSISTENCE byte written for persistence 16 is the one
\* written for persistence 15, 0xF0, because 16 is clamped to 15.
C8_SameByte ==
    (ret.op = "configure_interrupt" /\ Len(bus) >= 2) =>
        /\ ret.arg.persistence = 16 => bus[2].bytes[2] = int_persistence_value(15)
        /\ ret.arg.persistence = 15 => bus[2].bytes[2] = 240

\* persistence 16 was written as 0xF0
C8_Witness ==
    /\ ret.op = "configure_interrupt"
    /\ ret.arg.persistence = 16
    /\ Len(bus) >= 2
    /\ bus[2].bytes = <<26, 240>>

\* C9: read_data issues one write-then-read-3-bytes transaction starting at
\* 0x0D and read_clear_data one starting at 0x0A; for the bytes [b0, b1, b2]
\* returned the result is b0 | (b1 << 8) | ((b2 & 0x0F) << 16), which is
\* below 2^20: [0xFF, 0xFF, 0xFF] gives 0xFFFFF, [0x00, 0x00, 0x10] gives 0,
\* [0x34, 0x12, 0x0A] gives 0x0A1234.
C9_ReadDecode ==
    ret.op \in {"read_data", "read_clear_data"} =>
        /\ Len(bus) = 1
        /\ IsRead(bus[1], IF ret.op = "read_data" THEN 13 ELSE 10, 3)
        /\ ret.fault = 1 => ret.res = "I2c"
        /\ ret.fault = 0 =>
              /\ ret.res = "Ok"
              /\ bus[1].data = ret.arg
              /\ ret.val = ret.arg[1] + ret.arg[2] * 256 + (ret.arg[3] % 16) * 65536
              /\ ret.val < 1048576
              /\ ret.arg = <<255, 255, 255>> => ret.val = 1048575
              /\ ret.arg = <<0, 0, 16>> => ret.val = 0
              /\ ret.arg = <<52, 18, 10>> => ret.val = 660020

\* read_data returned 0 for [0x00, 0x00, 0x10]
C9_Witness ==
    /\ ret.op = "read_data"
    /\ ret.res = "Ok"
    /\ bus[1].data = <<0, 0, 16>>
    /\ ret.val = 0

\* C10: after any sequence of operations reset() issues exactly one
\* transaction, a write of 0x10 to MAIN_CTRL (0x00), and no read of PartId;
\* the byte has bit 1 clear, so a reset() that succeeds right after an
\* enable() leaves the enable bit of MAIN_CTRL clear; the driver stays, and
\* get_config() and get_interrupt_config() return after reset() what they
\* returned before it, whether the write succeeds or fails.
C10_ResetFrame ==
    [][ret'.op = "reset" =>
          /\ Len(bus') = 1
          /\ IsWrite(bus'[1], 0)
          /\ bus'[1].bytes[2] = 16
          /\ Bit(bus'[1].bytes[2], 1) = 0
          /\ phase' = "Ready"
          /\ get_config(Self(config', interrupt_config')) = get_config(Self_now)
          /\ get_interrupt_config(Self(config', interrupt_config')) =
                get_interrupt_config(Self_now)
          /\ ret'.fault = 0 =>
                /\ ret'.res = "Ok"
                /\ regs'[MainCtrl] = 16
                /\ \A r \in Writable \ {MainCtrl} : regs'[r] = regs[r]
          /\ ret'.fault = 1 =>
                /\ ret'.res = "I2c"
                /\ regs' = regs
          /\ (ret.op = "enable" /\ ret.res = "Ok" /\ ret'.fault = 0) =>
                /\ Bit(regs[MainCtrl], 1) = 1
                /\ Bit(regs'[MainCtrl], 1) = 0
      ]_vars

\* reset() returned Ok on a driver whose two cached configurations are not
\* the defaults
C10_Witness ==
    /\ ret.op = "reset"
    /\ ret.res = "Ok"
    /\ regs[MainCtrl] = 16
    /\ config = [resolution |-> "Bits13", measurement_rate |-> "Ms2000", gain |-> "Gain18"]
    /\ interrupt_config.persistence = 20
    /\ regs[IntPersistence] = 240

\* the values of the bytes the transactions so far put on the wire
Written == [i \in 1 .. Len(bus) |-> bus[i].bytes[2]]

\* the default InterruptConfig, field by field
DefaultInterruptArg ==
    [source |-> "AlsChannel", mode |-> "Threshold", enabled |-> FALSE,
     persistence |-> 0, upper_threshold |-> [hi |-> 15, lo |-> 65535],
     lower_threshold |-> [hi |-> 0, lo |-> 0], variance_threshold |-> "Counts8"]

\* the INT_CFG byte of a source, a mode and an enabled flag, by arithmetic:
\* source in bit 4 (ClearChannel 0, AlsChannel 1), mode in bit 3 (Threshold 0,
\* Variation 1), enabled in bit 2
IntCfgByte(c) ==
    (IF c.source = "AlsChannel" THEN 16 ELSE 0)
    + (IF c.mode = "Variation" THEN 8 ELSE 0)
    + (IF c.enabled THEN 4 ELSE 0)

\* C11: configure_interrupt called with the default InterruptConfig
\* (AlsChannel, Threshold, disabled, persistence 0, upper threshold 0xFFFFF,
\* lower threshold 0, Counts8) writes INT_CFG = 0b0001_0000,
\* INT_PERSISTENCE = 0x00, upper threshold bytes [0xFF, 0xFF, 0x0F], lower
\* threshold bytes [0x00, 0x00, 0x00] and variance byte 0x00; for every
\* source, mode and enabled value the INT_CFG byte is
\* (source_code << 4) | (mode_code << 3) | (enabled_bit << 2).
C11_DefaultInterruptBytes ==
    ret.op = "configure_interrupt" =>
        /\ InterruptConfig_default = DefaultInterruptArg
        /\ (ret.arg = DefaultInterruptArg /\ ret.fault = 0) =>
              /\ ret.res = "Ok"
              /\ IsWrite(bus[1], 25)
              /\ Written = <<16, 0, 255, 255, 15, 0, 0, 0, 0>>
        /\ Len(bus) >= 1 =>
              /\ IsWrite(bus[1], 25)
              /\ bus[1].bytes[2] = IntCfgByte(ret.arg)

\* the default InterruptConfig was written in full
C11_Witness ==
    /\ ret.op = "configure_interrupt"
    /\ ret.res = "Ok"
    /\ ret.arg = DefaultInterruptArg
    /\ Len(bus) = 9
    /\ bus[1].bytes = <<25, 16>>
    /\ regs[ThresUp2] = 15
    /\ regs[ThresVar] = 0

====
